---- MODULE Spec2Model ----
(***************************************************************************)
(* A model of the e-commerce analytics pipeline of lesson7_files:          *)
(*   data_loader.py       load_raw_datasets, clean_and_prepare_data,       *)
(*                        filter_delivered_orders                          *)
(*   business_metrics.py  calculate_revenue_metrics, the analyzers,        *)
(*                        generate_comprehensive_report                    *)
(*   app.py               load_and_prepare_data, main                      *)
(*   dashboard_utils.py   categorize_delivery_time                         *)
(* A DataFrame is a record [exc, cols, rows]: the columns it has and its   *)
(* rows in order; exc names the exception when the call that should have   *)
(* produced it raised instead.  Floats are exact rationals plus the        *)
(* IEEE values inf and nan.  now is the wall clock, previous the report of  *)
(* the call before, written the columns assigned in place on the frame     *)
(* load_and_prepare_data returned to the current run, tie_order where the  *)
(* build's unstable sort puts rows with equal keys.                        *)
(***************************************************************************)
EXTENDS Integers, Sequences, FiniteSets, TLC

VARIABLES disk, datasets, sales_data, delivered_orders, query, result, pc,
          now, previous, written, tie_order

vars == <<disk, datasets, sales_data, delivered_orders, query, result, pc,
          now, previous, written, tie_order>>

(***************************************************************************)
(* Bounds of the model.                                                    *)
(***************************************************************************)
\* ticks of the clock in one day (timestamps have a finer grain than days)
TicksPerDay == 2
\* days in one month of the model's calendar
DaysPerMonth == 2
\* orders in the orders table
MaxOrders == 2
\* rows of the largest record set whose every reordering is tried
MaxPermuted == 3
\* the longest delivery, in days, that is bucketed
MaxDays == 100
\* calls of generate_comprehensive_report one after the other
MaxCalls == 3

(***************************************************************************)
(* Missing values and the calendar.                                        *)
(***************************************************************************)
\* pandas' missing number or instant (NaN, NaT)
NaN == -1000
\* pandas' missing string
NullStr == "nan"

isna(x) == x = NaN

MonthsPerYear == 12
EpochYear == 2022
TicksPerMonth == TicksPerDay * DaysPerMonth
TicksPerYear == TicksPerMonth * MonthsPerYear

\* the instant h ticks into day d (from 0) of month m of year y
MkTime(y, m, d, h) ==
    (y - EpochYear) * TicksPerYear + (m - 1) * TicksPerMonth + d * TicksPerDay + h

dt_year(t) == IF isna(t) THEN NaN ELSE EpochYear + (t \div TicksPerYear)
dt_month(t) == IF isna(t) THEN NaN ELSE ((t \div TicksPerMonth) % MonthsPerYear) + 1
dt_quarter(t) == IF isna(t) THEN NaN ELSE ((dt_month(t) - 1) \div 3) + 1
\* dt_days with the days rounded towards zero
dt_days_truncated(td) ==
    IF isna(td) THEN NaN
    ELSE IF td < 0 THEN -((-td) \div TicksPerDay) ELSE td \div TicksPerDay
\* Timedelta.days: the floor of the difference in days
dt_days(td) == IF isna(td) THEN NaN ELSE td \div TicksPerDay
\* the difference of two instants, NaT when either is NaT
TimeDelta(a, b) == IF isna(a) \/ isna(b) THEN NaN ELSE a - b

(***************************************************************************)
(* Sequences.                                                              *)
(***************************************************************************)
RECURSIVE Flatten(_)
Flatten(ss) == IF ss = <<>> THEN <<>> ELSE Head(ss) \o Flatten(Tail(ss))

RECURSIVE SumSeq(_)
SumSeq(s) == IF s = <<>> THEN 0 ELSE Head(s) + SumSeq(Tail(s))

Range(s) == {s[i] : i \in 1..Len(s)}

(***************************************************************************)
(* The CSV files.  A timestamp cell is text: a well-formed timestamp, an   *)
(* empty cell, or text that is no timestamp.                               *)
(***************************************************************************)
Stamp(t) == [kind |-> "ts", t |-> t]
EmptyCell == [kind |-> "empty", t |-> 0]
Garbage == [kind |-> "bad", t |-> 0]

file_mapping ==
    [orders |-> "orders_dataset.csv",
     order_items |-> "order_items_dataset.csv",
     products |-> "products_dataset.csv",
     customers |-> "customers_dataset.csv",
     reviews |-> "order_reviews_dataset.csv",
     payments |-> "order_payments_dataset.csv"]

load_raw_datasets(files) ==
    [key \in {k \in DOMAIN file_mapping : file_mapping[k] \in DOMAIN files}
        |-> files[file_mapping[key]]]

(***************************************************************************)
(* DataFrames.                                                             *)
(***************************************************************************)
SalesCols ==
    {"order_id", "order_item_id", "product_id", "price", "order_status",
     "order_purchase_timestamp", "order_delivered_customer_date", "customer_id",
     "year", "month", "quarter", "product_category_name", "customer_state",
     "customer_city", "review_score"}

DeliveredCols == SalesCols \cup {"delivery_days", "delivery_category"}

DataFrame(cols, rows) == [exc |-> "", cols |-> cols, rows |-> rows]
Raised(e) == [exc |-> e, cols |-> {}, rows |-> <<>>]
\* pd.DataFrame()
EmptyDataFrame == DataFrame({}, <<>>)
empty(df) == df.rows = <<>> \/ df.cols = {}

\* pd.to_datetime of one cell; the call raises when a cell of the column is
\* text that is no timestamp
to_datetime(cell) == IF cell.kind = "ts" THEN cell.t ELSE NaN

StringCols == {"order_status", "product_category_name", "customer_state",
               "customer_city", "delivery_category"}

\* the null a column holds where a left join found no match
NullOf(col) == IF col \in StringCols THEN NullStr ELSE NaN

\* table[[cols]]
Project(rows, cols) == [i \in 1..Len(rows) |-> [c \in cols |-> rows[i][c]]]

\* pd.merge(left, right, on=key): for each left row, in order, one row per
\* right row with the same key
InnerMerge(left, right, key) ==
    Flatten([i \in 1..Len(left) |->
        LET hits == SelectSeq(right, LAMBDA r : r[key] = left[i][key])
        IN  [j \in 1..Len(hits) |-> left[i] @@ hits[j]]])

\* the join of left with table[cols] that keeps only the rows with a match
LeftMerge_inner(left, table, cols, key) == InnerMerge(left, Project(table, cols), key)

\* pd.merge(left, table[cols], on=key, how='left'): a left row without a match
\* is kept once, the joined columns null
LeftMerge(left, table, cols, key) ==
    Flatten([i \in 1..Len(left) |->
        LET hits == SelectSeq(Project(table, cols), LAMBDA r : r[key] = left[i][key])
        IN  IF hits = <<>> THEN <<left[i] @@ [c \in cols |-> NullOf(c)]>>
            ELSE [j \in 1..Len(hits) |-> left[i] @@ hits[j]]])

\* the date components of the purchase timestamp
DateComponents(r) ==
    [year |-> dt_year(r.order_purchase_timestamp),
     month |-> dt_month(r.order_purchase_timestamp),
     quarter |-> dt_quarter(r.order_purchase_timestamp)]

RequiredTables == {"orders", "order_items", "products", "customers", "reviews"}

clean_and_prepare_data(ds) ==
    IF ~(RequiredTables \subseteq DOMAIN ds) THEN Raised("KeyError")
    ELSE
    LET merged == InnerMerge(
                      Project(ds.order_items,
                              {"order_id", "order_item_id", "product_id", "price"}),
                      Project(ds.orders,
                              {"order_id", "order_status", "order_purchase_timestamp",
                               "order_delivered_customer_date", "customer_id"}),
                      "order_id")
        unparseable == \E i \in 1..Len(merged) :
                          merged[i].order_purchase_timestamp.kind = "bad"
                          \/ merged[i].order_delivered_customer_date.kind = "bad"
    IN  IF unparseable THEN Raised("ValueError")
        ELSE
        LET parsed == [i \in 1..Len(merged) |->
                         [merged[i] EXCEPT
                            !.order_purchase_timestamp = to_datetime(@),
                            !.order_delivered_customer_date = to_datetime(@)]]
            dated == [i \in 1..Len(parsed) |-> parsed[i] @@ DateComponents(parsed[i])]
            withProducts == LeftMerge(dated, ds.products,
                                {"product_id", "product_category_name"}, "product_id")
            withCustomers == LeftMerge(withProducts, ds.customers,
                                {"customer_id", "customer_state", "customer_city"},
                                "customer_id")
            withReviews == LeftMerge(withCustomers, ds.reviews,
                                {"order_id", "review_score"}, "order_id")
        IN  DataFrame(SalesCols, withReviews)

\* categorize_delivery_speed with the first breakpoint exclusive
categorize_delivery_speed_strict(days) ==
    IF isna(days) THEN "Unknown"
    ELSE IF days < 3 THEN "1-3 days"
    ELSE IF days <= 7 THEN "4-7 days"
    ELSE "8+ days"

categorize_delivery_speed(days) ==
    IF isna(days) THEN "Unknown"
    ELSE IF days <= 3 THEN "1-3 days"
    ELSE IF days <= 7 THEN "4-7 days"
    ELSE "8+ days"

\* categorize_delivery_time without the split at 14 days
categorize_delivery_time_unsplit(days) ==
    IF isna(days) THEN "Unknown"
    ELSE IF days <= 3 THEN "1-3 days"
    ELSE IF days <= 7 THEN "4-7 days"
    ELSE "8-14 days"

\* dashboard_utils.py: the buckets of the satisfaction-vs-delivery chart
categorize_delivery_time(days) ==
    IF isna(days) THEN "Unknown"
    ELSE IF days <= 3 THEN "1-3 days"
    ELSE IF days <= 7 THEN "4-7 days"
    ELSE IF days <= 14 THEN "8-14 days"
    ELSE "15+ days"

delivery_days_of(r) ==
    dt_days(TimeDelta(r.order_delivered_customer_date, r.order_purchase_timestamp))

filter_delivered_orders(df) ==
    LET kept == SelectSeq(df.rows, LAMBDA r : r.order_status = "delivered")
    IN  DataFrame(df.cols \cup {"delivery_days", "delivery_category"},
            [i \in 1..Len(kept) |->
                [delivery_days |-> delivery_days_of(kept[i]),
                 delivery_category |-> categorize_delivery_speed(delivery_days_of(kept[i]))]
                @@ kept[i]])

(***************************************************************************)
(* Floats.  A float is [k, n, d]: the rational n/d in lowest terms with    *)
(* d > 0 (k = "num"), plus or minus infinity (k = "inf", the sign in n),   *)
(* or nan.  Division follows numpy's float64: x/0 is inf or nan, never an  *)
(* exception.                                                              *)
(***************************************************************************)
RECURSIVE GCD(_, _)
GCD(a, b) == IF b = 0 THEN a ELSE GCD(b, a % b)

Abs(x) == IF x < 0 THEN -x ELSE x
Sign(x) == IF x < 0 THEN -1 ELSE IF x > 0 THEN 1 ELSE 0

Rat(n, d) ==
    LET g == GCD(Abs(n), Abs(d))
    IN  [k |-> "num", n |-> (Sign(d) * n) \div g, d |-> Abs(d) \div g]
Num(i) == [k |-> "num", n |-> i, d |-> 1]
Inf(sign) == [k |-> "inf", n |-> sign, d |-> 1]
nan == [k |-> "nan", n |-> 0, d |-> 1]
\* the placeholder for an entry a result does not have
Absent == [k |-> "absent", n |-> 0, d |-> 1]

fadd(a, b) ==
    IF a.k = "nan" \/ b.k = "nan" THEN nan
    ELSE IF a.k = "inf" /\ b.k = "inf" THEN (IF a.n = b.n THEN a ELSE nan)
    ELSE IF a.k = "inf" THEN a
    ELSE IF b.k = "inf" THEN b
    ELSE Rat(a.n * b.d + b.n * a.d, a.d * b.d)

fneg(a) == IF a.k = "nan" THEN nan ELSE [a EXCEPT !.n = -a.n]

fsub(a, b) == fadd(a, fneg(b))

fmul(a, b) ==
    IF a.k = "nan" \/ b.k = "nan" THEN nan
    ELSE IF a.k = "inf" \/ b.k = "inf"
         THEN (IF a.n = 0 \/ b.n = 0 THEN nan ELSE Inf(Sign(a.n) * Sign(b.n)))
    ELSE Rat(a.n * b.n, a.d * b.d)

fdiv(a, b) ==
    IF a.k = "nan" \/ b.k = "nan" THEN nan
    ELSE IF b.k = "inf" THEN (IF a.k = "inf" THEN nan ELSE Num(0))
    ELSE IF b.n = 0
         THEN (IF a.n = 0 THEN nan ELSE Inf(Sign(a.n)))
    ELSE IF a.k = "inf" THEN Inf(Sign(a.n) * Sign(b.n))
    ELSE Rat(a.n * b.d, a.d * b.n)

\* a > 0 as Python evaluates it: False for nan
fpos(a) == a.k # "nan" /\ a.n > 0

RECURSIVE fsum(_)
fsum(s) == IF s = <<>> THEN Num(0) ELSE fadd(Head(s), fsum(Tail(s)))

\* Series.mean(): the mean of the values that are not nan, nan when there are none
fmean(s) ==
    LET vals == SelectSeq(s, LAMBDA x : x.k # "nan")
    IN  IF vals = <<>> THEN nan ELSE fdiv(fsum(vals), Num(Len(vals)))

(***************************************************************************)
(* Columns, grouping.                                                      *)
(***************************************************************************)
\* a == b on a column: False when either side is missing
PdEq(a, b) == ~isna(a) /\ ~isna(b) /\ a = b

Min(S) == CHOOSE x \in S : \A y \in S : x <= y

RECURSIVE SortedSeq(_)
\* the numbers of S in ascending order
SortedSeq(S) == IF S = {} THEN <<>> ELSE <<Min(S)>> \o SortedSeq(S \ {Min(S)})

\* Series.nunique(): the distinct values that are not missing
nunique(rows, col) == Cardinality({rows[i][col] : i \in 1..Len(rows)} \ {NaN})

\* the keys of groupby(col), sorted; rows with a missing key belong to no group
GroupKeys(rows, col) == SortedSeq({rows[i][col] : i \in 1..Len(rows)} \ {NaN})

PriceSum(rows) == SumSeq([i \in 1..Len(rows) |-> rows[i].price])

\* groupby('order_id')['price'].sum()
OrderSums(rows) ==
    LET keys == GroupKeys(rows, "order_id")
    IN  [i \in 1..Len(keys) |->
            Num(PriceSum(SelectSeq(rows, LAMBDA r : r.order_id = keys[i])))]

\* the mean of the line-item prices
average_order_value_per_item(rows) ==
    fmean([i \in 1..Len(rows) |-> Num(rows[i].price)])

\* groupby('order_id')['price'].sum().mean()
average_order_value(rows) == fmean(OrderSums(rows))

\* data[data[key] == value] for every key of the filter dict
ApplyFilter(rows, filter) ==
    SelectSeq(rows, LAMBDA r : \A key \in DOMAIN filter : PdEq(r[key], filter[key]))

PeriodMetrics(rows) ==
    [total_revenue |-> Num(PriceSum(rows)),
     total_orders |-> nunique(rows, "order_id"),
     total_customers |-> nunique(rows, "customer_id"),
     average_order_value |-> average_order_value(rows)]

\* (current - comparison) / comparison * 100 on floats
GrowthRate(current, comparison) ==
    fmul(fdiv(fsub(current, comparison), comparison), Num(100))

NoGrowthRates == [revenue_growth |-> Absent, order_growth |-> Absent, aov_growth |-> Absent]

\* a period filter is a dict: a function on a set of column names
calculate_revenue_metrics(df, current_period_filter, comparison_period_filter) ==
    IF ~((DOMAIN current_period_filter \cup DOMAIN comparison_period_filter
            \cup {"price", "order_id", "customer_id"}) \subseteq df.cols)
    THEN [exc |-> "KeyError", keys |-> {},
          current_period |-> PeriodMetrics(<<>>), comparison_period |-> PeriodMetrics(<<>>),
          growth_rates |-> NoGrowthRates]
    ELSE
    LET current_data == ApplyFilter(df.rows, current_period_filter)
        comparison_data == IF DOMAIN comparison_period_filter = {} THEN <<>>
                           ELSE ApplyFilter(df.rows, comparison_period_filter)
        cur == PeriodMetrics(current_data)
        cmp == PeriodMetrics(comparison_data)
    IN  IF comparison_data = <<>>
        THEN [exc |-> "", keys |-> {"current_period"},
              current_period |-> cur, comparison_period |-> cmp,
              growth_rates |-> NoGrowthRates]
        ELSE IF cmp.total_orders = 0
        \* total_orders are Python ints: int / 0 raises
        THEN [exc |-> "ZeroDivisionError", keys |-> {},
              current_period |-> cur, comparison_period |-> cmp,
              growth_rates |-> NoGrowthRates]
        ELSE [exc |-> "", keys |-> {"current_period", "comparison_period", "growth_rates"},
              current_period |-> cur, comparison_period |-> cmp,
              growth_rates |->
                [revenue_growth |-> GrowthRate(cur.total_revenue, cmp.total_revenue),
                 order_growth |-> GrowthRate(Num(cur.total_orders), Num(cmp.total_orders)),
                 aov_growth |-> GrowthRate(cur.average_order_value,
                                           cmp.average_order_value)]]

(***************************************************************************)
(* Rounding, medians, sorting.                                             *)
(***************************************************************************)
\* n/d rounded to the nearest integer, halves to even (d > 0)
RoundHalfEven(n, d) ==
    LET q == n \div d
        r == n - q * d
    IN  IF 2 * r < d THEN q
        ELSE IF 2 * r > d THEN q + 1
        ELSE IF q % 2 = 0 THEN q ELSE q + 1

\* .round(2)
round2(x) == IF x.k # "num" THEN x ELSE Rat(RoundHalfEven(x.n * 100, x.d), 100)

\* the numbers of s in ascending order, repeats kept
RECURSIVE SortInts(_)
SortInts(s) ==
    IF s = <<>> THEN <<>>
    ELSE LET m == Min(Range(s))
         IN  SelectSeq(s, LAMBDA x : x = m) \o SortInts(SelectSeq(s, LAMBDA x : x # m))

\* Series.median() of the values that are not missing
median(s) ==
    LET v == SortInts(SelectSeq(s, LAMBDA x : ~isna(x)))
        n == Len(v)
    IN  IF n = 0 THEN nan
        ELSE IF n % 2 = 1 THEN Num(v[(n + 1) \div 2])
        ELSE Rat(v[n \div 2] + v[(n \div 2) + 1], 2)

\* Series.mean() of an integer column
imean(s) == fmean([i \in 1..Len(SelectSeq(s, LAMBDA x : ~isna(x))) |->
                     Num(SelectSeq(s, LAMBDA x : ~isna(x))[i])])

\* a < b on floats that are numbers
flt(a, b) == a.n * b.d < b.n * a.d

\* where the sort of the build puts rows with equal keys: sort_values is
\* called with its default kind, 'quicksort', which is not a stable sort
TieOrders == {"kept", "reversed"}

\* sort_values('total_revenue', ascending=False): descending, rows with equal
\* revenue in their order before the sort or in the reverse of it
RECURSIVE SortByRevenueDesc(_)
SortByRevenueDesc(s) ==
    IF s = <<>> THEN <<>>
    ELSE LET largest == {i \in 1..Len(s) :
                            \A j \in 1..Len(s) : ~flt(s[i].total_revenue, s[j].total_revenue)}
             first == IF tie_order = "kept" THEN Min(largest)
                      ELSE CHOOSE i \in largest : \A j \in largest : j <= i
         IN  <<s[first]>> \o
             SortByRevenueDesc([j \in 1..(Len(s) - 1) |-> IF j < first THEN s[j] ELSE s[j + 1]])

\* the strings of the data in Python's order
StrOrder ==
    <<"1-3 days", "4-7 days", "8+ days", "RJ", "SP", "Unknown", "auto", "books",
      "canceled", "delivered", "rio", "sao_paulo", "shipped", "toys">>

\* the keys of groupby(col) on a string column, sorted; null keys dropped
GroupKeysStr(rows, col) ==
    SelectSeq(StrOrder, LAMBDA k : \E i \in 1..Len(rows) : rows[i][col] = k)

Column(rows, col) == [i \in 1..Len(rows) |-> rows[i][col]]

\* value_counts().to_dict() of a string column
ValueCountsStr(rows, col) ==
    [k \in Range(GroupKeysStr(rows, col)) |->
        Len(SelectSeq(rows, LAMBDA r : r[col] = k))]

\* value_counts().to_dict() of an integer column
ValueCounts(rows, col) ==
    [k \in Range(GroupKeys(rows, col)) |->
        Len(SelectSeq(rows, LAMBDA r : r[col] = k))]

(***************************************************************************)
(* The analyzers.  A result is a dict; exc names the exception when the    *)
(* analyzer raised, error is the message of the {'error': ...} dict.       *)
(***************************************************************************)
Unavailable(msg) == [exc |-> "", error |-> msg]
AnalyzerRaised(e) == [exc |-> e, error |-> ""]

\* data.groupby(col).agg({'price': ['sum', 'mean', 'count'], ...}).round(2)
GroupMetrics(rows, col, countcol) ==
    LET keys == GroupKeysStr(rows, col)
    IN  [i \in 1..Len(keys) |->
            LET g == SelectSeq(rows, LAMBDA r : r[col] = keys[i])
            IN  [key |-> keys[i],
                 total_revenue |-> round2(Num(PriceSum(g))),
                 avg_price |-> round2(fdiv(Num(PriceSum(g)), Num(Len(g)))),
                 total_items |-> Len(g),
                 unique_orders |-> nunique(g, "order_id"),
                 unique_count |-> nunique(g, countcol)]]

\* the sorted table with its revenue_share column
WithRevenueShare(metrics) ==
    LET sorted == SortByRevenueDesc(metrics)
        total_revenue == fsum([i \in 1..Len(sorted) |-> sorted[i].total_revenue])
    IN  [i \in 1..Len(sorted) |->
            [key |-> sorted[i].key,
             total_revenue |-> sorted[i].total_revenue,
             avg_price |-> sorted[i].avg_price,
             total_items |-> sorted[i].total_items,
             unique_orders |-> sorted[i].unique_orders,
             unique_count |-> sorted[i].unique_count,
             revenue_share |->
                round2(fmul(fdiv(sorted[i].total_revenue, total_revenue), Num(100)))]]

analyze_product_performance(df) ==
    IF "product_category_name" \notin df.cols
    THEN Unavailable("Product category information not available")
    ELSE IF ~({"price", "order_id", "product_id"} \subseteq df.cols)
    THEN AnalyzerRaised("KeyError")
    ELSE LET category_metrics ==
                 WithRevenueShare(GroupMetrics(df.rows, "product_category_name", "product_id"))
         IN  IF category_metrics = <<>> THEN AnalyzerRaised("IndexError")
             ELSE [exc |-> "", error |-> "",
                   category_performance |-> category_metrics,
                   top_category |-> category_metrics[1].key,
                   total_categories |-> Len(category_metrics)]

analyze_geographic_performance(df) ==
    IF "customer_state" \notin df.cols
    THEN Unavailable("Geographic information not available")
    ELSE IF ~({"price", "order_id", "customer_id"} \subseteq df.cols)
    THEN AnalyzerRaised("KeyError")
    ELSE LET state_metrics ==
                 WithRevenueShare(GroupMetrics(df.rows, "customer_state", "customer_id"))
         IN  IF state_metrics = <<>> THEN AnalyzerRaised("IndexError")
             ELSE [exc |-> "", error |-> "",
                   state_performance |-> state_metrics,
                   top_state |-> state_metrics[1].key,
                   total_states |-> Len(state_metrics)]

\* data[['order_id', 'review_score']].drop_duplicates(): the distinct pairs,
\* each at its first place
RECURSIVE drop_duplicates(_)
drop_duplicates(pairs) ==
    IF pairs = <<>> THEN <<>>
    ELSE <<Head(pairs)>> \o
         drop_duplicates(SelectSeq(Tail(pairs), LAMBDA p : p # Head(pairs)))

analyze_customer_satisfaction(df) ==
    IF "review_score" \notin df.cols
    THEN Unavailable("Review score information not available")
    ELSE IF "order_id" \notin df.cols THEN AnalyzerRaised("KeyError")
    ELSE LET review_data ==
                 drop_duplicates([i \in 1..Len(df.rows) |->
                     [order_id |-> df.rows[i].order_id,
                      review_score |-> df.rows[i].review_score]])
             scores == Column(review_data, "review_score")
         IN  [exc |-> "", error |-> "",
              review_data |-> review_data,
              average_score |-> imean(scores),
              median_score |-> median(scores),
              score_distribution |-> ValueCounts(review_data, "review_score"),
              total_reviews |-> Len(review_data),
              satisfaction_rate |->
                  fmul(fdiv(Num(Len(SelectSeq(scores, LAMBDA x : ~isna(x) /\ x >= 4))),
                            Num(Len(review_data))), Num(100))]

analyze_delivery_performance(df) ==
    IF "delivery_days" \notin df.cols
    THEN Unavailable("Delivery information not available")
    ELSE LET delivery_data == SelectSeq(df.rows, LAMBDA r : ~isna(r.delivery_days))
             days == Column(delivery_data, "delivery_days")
             cats == GroupKeysStr(delivery_data, "delivery_category")
         IN  IF "review_score" \in df.cols /\ "delivery_category" \notin df.cols
             THEN AnalyzerRaised("KeyError")
             ELSE [exc |-> "", error |-> "",
                   average_delivery_days |-> imean(days),
                   median_delivery_days |-> median(days),
                   delivery_categories |->
                       IF "delivery_category" \in df.cols
                       THEN ValueCountsStr(delivery_data, "delivery_category")
                       ELSE <<>>,
                   on_time_percentage |->
                       fmul(fdiv(Num(Len(SelectSeq(days, LAMBDA d : d <= 7))),
                                 Num(Len(delivery_data))), Num(100)),
                   satisfaction_by_delivery_speed |->
                       IF "review_score" \in df.cols
                       THEN [c \in Range(cats) |->
                               imean(Column(SelectSeq(delivery_data,
                                   LAMBDA r : r.delivery_category = c), "review_score"))]
                       ELSE <<>>]

calculate_order_status_metrics(df) ==
    IF "order_status" \notin df.cols THEN AnalyzerRaised("KeyError")
    ELSE LET status_counts == ValueCountsStr(df.rows, "order_status")
             total == Len(SelectSeq(df.rows, LAMBDA r : r.order_status # NullStr))
             status_percentages ==
                 [k \in DOMAIN status_counts |->
                     round2(fmul(fdiv(Num(status_counts[k]), Num(total)), Num(100)))]
         IN  [exc |-> "", error |-> "",
              status_counts |-> status_counts,
              status_percentages |-> status_percentages,
              total_orders |-> total,
              completion_rate |-> IF "delivered" \in DOMAIN status_percentages
                                  THEN status_percentages["delivered"] ELSE Num(0)]

\* Series.pct_change(): x[i] / x[i-1] - 1, nan at the first place
pct_change(s) ==
    [i \in 1..Len(s) |-> IF i = 1 THEN nan ELSE fsub(fdiv(s[i], s[i - 1]), Num(1))]

calculate_monthly_trends(df, year) ==
    LET year_data == SelectSeq(df.rows, LAMBDA r : PdEq(r.year, year))
        months == GroupKeys(year_data, "month")
        group(m) == SelectSeq(year_data, LAMBDA r : r.month = m)
        revenue == [i \in 1..Len(months) |-> Num(PriceSum(group(months[i])))]
        orders == [i \in 1..Len(months) |-> Num(nunique(group(months[i]), "order_id"))]
    IN  [i \in 1..Len(months) |->
            [month |-> months[i],
             revenue |-> revenue[i],
             orders |-> nunique(group(months[i]), "order_id"),
             customers |-> nunique(group(months[i]), "customer_id"),
             revenue_growth |-> fmul(pct_change(revenue)[i], Num(100)),
             order_growth |-> fmul(pct_change(orders)[i], Num(100))]]

\* the names of the report's groups, in the order they are computed
ReportGroups ==
    <<"revenue_metrics", "product_performance", "geographic_performance",
      "customer_satisfaction", "delivery_performance", "order_status">>

\* f'{analysis_year} vs {comparison_year}' with the wall clock in it
analysis_period_timed(analysis_year, comparison_year) ==
    <<analysis_year, "vs", comparison_year, now>>

\* f'{analysis_year} vs {comparison_year}'
analysis_period(analysis_year, comparison_year) ==
    <<analysis_year, "vs", comparison_year>>

\* pd.Timestamp.now().strftime('%Y-%m-%d %H:%M:%S'): the wall clock, in seconds
Timestamp_now == now

generate_comprehensive_report(df, analysis_year, comparison_year) ==
    LET analysis_data ==
            DataFrame(df.cols, SelectSeq(df.rows, LAMBDA r : PdEq(r.year, analysis_year)))
        groups ==
            [revenue_metrics |->
                calculate_revenue_metrics(df, [year |-> analysis_year],
                                          [year |-> comparison_year]),
             product_performance |-> analyze_product_performance(analysis_data),
             geographic_performance |-> analyze_geographic_performance(analysis_data),
             customer_satisfaction |-> analyze_customer_satisfaction(analysis_data),
             delivery_performance |-> analyze_delivery_performance(analysis_data),
             order_status |-> calculate_order_status_metrics(analysis_data)]
        raising == SelectSeq(ReportGroups, LAMBDA g : groups[g].exc # "")
    IN  IF "year" \notin df.cols THEN [exc |-> "KeyError", groups |-> <<>>]
        ELSE IF raising # <<>>
        \* the first group that raises ends the call: no report is returned
        THEN [exc |-> groups[raising[1]].exc, raised_in |-> raising[1], groups |-> <<>>]
        ELSE [exc |-> "", raised_in |-> "",
              analysis_period |-> analysis_period(analysis_year, comparison_year),
              generated_at |-> Timestamp_now,
              groups |-> groups,
              monthly_trends |-> calculate_monthly_trends(df, analysis_year)]

(***************************************************************************)
(* app.py: main().  selected_month is AllMonths or a month 1..12.          *)
(***************************************************************************)
AllMonths == 0

\* sorted(delivered_orders['year'].unique(), reverse=True): the years to select from
available_years(df) == {df.rows[i].year : i \in 1..Len(df.rows)}

\* value if comparison > 0 else 0
Trend(current, comparison) ==
    IF fpos(comparison) THEN GrowthRate(current, comparison) ELSE Num(0)

\* groupby(order_purchase_timestamp.dt.to_period('M'))['price'].sum()
MonthlyRevenue(rows) ==
    LET period(r) == r.year * MonthsPerYear + r.month
        dated == SelectSeq(rows, LAMBDA r : ~isna(r.order_purchase_timestamp))
        periods == SortedSeq({period(dated[i]) : i \in 1..Len(dated)})
    IN  [i \in 1..Len(periods) |->
            Num(PriceSum(SelectSeq(dated, LAMBDA r : period(r) = periods[i])))]

\* the row mask of a selection with the month ignored
InPeriod_any_month(r, year, month) == PdEq(r.year, year)

\* the row mask of a selection: delivered_orders['year'] == year, and
\* delivered_orders['month'] == month unless 'All Months' is selected
InPeriod(r, year, month) ==
    PdEq(r.year, year) /\ (month = AllMonths \/ PdEq(r.month, month))

\* delivered_orders['year'] = ...dt.year; delivered_orders['month'] = ...dt.month:
\* the frame after main() has assigned the two columns on it
AssignDateColumns(df) ==
    DataFrame(df.cols \cup {"year", "month"},
        [i \in 1..Len(df.rows) |->
            [year |-> dt_year(df.rows[i].order_purchase_timestamp),
             month |-> dt_month(df.rows[i].order_purchase_timestamp)]
            @@ df.rows[i]])

main(cached, selected_year, selected_month) ==
    IF empty(cached) THEN [out |-> "error: no data available"]
    ELSE
    LET orders == AssignDateColumns(cached).rows
        filtered_data ==
            SelectSeq(orders, LAMBDA r : InPeriod(r, selected_year, selected_month))
        comparison_year == selected_year - 1
        comparison_data ==
            SelectSeq(orders, LAMBDA r : InPeriod(r, comparison_year, selected_month))
        current_metrics == PeriodMetrics(filtered_data)
        comparison_metrics == PeriodMetrics(comparison_data)
        current_period_monthly == MonthlyRevenue(filtered_data)
    IN  IF filtered_data = <<>>
        THEN [out |-> "warning: no data for the selected date range",
              filtered_data |-> filtered_data, comparison_data |-> comparison_data]
        ELSE [out |-> "dashboard",
              filtered_data |-> filtered_data,
              comparison_data |-> comparison_data,
              current_metrics |-> current_metrics,
              monthly_growth |->
                  IF Len(current_period_monthly) > 1
                  THEN fmul(fmean(pct_change(current_period_monthly)), Num(100))
                  ELSE Num(0),
              revenue_trend |->
                  IF comparison_data # <<>>
                  THEN Trend(current_metrics.total_revenue, comparison_metrics.total_revenue)
                  ELSE Num(0),
              orders_trend |->
                  IF comparison_data # <<>>
                  THEN Trend(Num(current_metrics.total_orders),
                             Num(comparison_metrics.total_orders))
                  ELSE Num(0),
              aov_trend |->
                  IF comparison_data # <<>>
                  THEN Trend(current_metrics.average_order_value,
                             comparison_metrics.average_order_value)
                  ELSE Num(0),
              avg_delivery |-> imean(Column(filtered_data, "delivery_days")),
              avg_review |-> imean(Column(filtered_data, "review_score"))]

(***************************************************************************)
(* The input files.  An order of the orders table comes with its line      *)
(* items; the tables are built from a sequence of such orders.             *)
(***************************************************************************)
\* item j of an order buys product j
ItemsOf(orders) ==
    Flatten([k \in 1..Len(orders) |->
        [j \in 1..Len(orders[k].prices) |->
            [order_id |-> k, order_item_id |-> j, product_id |-> j,
             price |-> orders[k].prices[j]]]])

OrdersOf(orders) ==
    [k \in 1..Len(orders) |->
        [order_id |-> k,
         order_status |-> orders[k].status,
         order_purchase_timestamp |-> orders[k].purchase,
         order_delivered_customer_date |-> orders[k].delivered,
         customer_id |-> (k + 1) \div 2]]

\* one review per order, with the order's score
ReviewsOf(orders) ==
    [k \in 1..Len(orders) |-> [order_id |-> k, review_score |-> orders[k].score]]

Products == <<[product_id |-> 1, product_category_name |-> "auto"],
              [product_id |-> 2, product_category_name |-> "books"]>>

Customers == <<[customer_id |-> 1, customer_state |-> "SP", customer_city |-> "sao_paulo"],
               [customer_id |-> 2, customer_state |-> "RJ", customer_city |-> "rio"]>>

\* the ways the lookup tables vary: product 1 listed twice, customer 1 listed
\* twice, product 2 not listed, customer 1 not listed
ProductTables ==
    {Products,
     Products \o <<[product_id |-> 1, product_category_name |-> "toys"]>>,
     SubSeq(Products, 1, 1)}
CustomerTables ==
    {Customers,
     Customers \o <<[customer_id |-> 1, customer_state |-> "RJ", customer_city |-> "rio"]>>,
     SubSeq(Customers, 2, 2)}

\* the ways the reviews vary: one per order, none, only order 1 reviewed, a
\* second review of order 1 with another score, a second review of order 1
\* with the same score
ReviewTables(orders) ==
    {ReviewsOf(orders),
     <<>>,
     SubSeq(ReviewsOf(orders), 1, 1),
     ReviewsOf(orders) \o <<[order_id |-> 1, review_score |-> 1]>>,
     ReviewsOf(orders) \o <<[order_id |-> 1, review_score |-> orders[1].score]>>}

OptionalTables == {"products", "customers", "reviews", "payments"}

\* the directory holding the files of the tables in found
Directory(found, orders, products, customers, reviews) ==
    LET tables == [orders |-> OrdersOf(orders),
                   order_items |-> ItemsOf(orders),
                   products |-> products,
                   customers |-> customers,
                   reviews |-> reviews,
                   payments |-> <<>>]
    IN  [f \in {file_mapping[k] : k \in found} |->
            tables[CHOOSE k \in found : file_mapping[k] = f]]

AllTables == DOMAIN file_mapping

\* sequences over S of length 1..n
SeqsUpTo(S, n) == UNION {[1..m -> S] : m \in 1..n}

Order(status, purchase, delivered, prices, score) ==
    [status |-> status, purchase |-> purchase, delivered |-> delivered,
     prices |-> prices, score |-> score]

\* orders of two years and two months: delivered fast and slow, free and paid,
\* one item and two, and one not delivered
QueryOrders ==
    {Order("delivered", Stamp(MkTime(2023, 1, 0, 1)),
                        Stamp(MkTime(2023, 1, 0, 1) + 2 * TicksPerDay), <<10, 30>>, 5),
     Order("delivered", Stamp(MkTime(2023, 2, 0, 0)),
                        Stamp(MkTime(2023, 2, 0, 0) + 10 * TicksPerDay), <<20>>, 3),
     Order("delivered", Stamp(MkTime(2022, 1, 0, 0)),
                        Stamp(MkTime(2022, 1, 0, 0) + 5 * TicksPerDay), <<0>>, 4),
     Order("delivered", Stamp(MkTime(2022, 2, 1, 0)),
                        Stamp(MkTime(2022, 2, 1, 0) + 1), <<10>>, 2),
     Order("delivered", Stamp(MkTime(2023, 1, 1, 0)), EmptyCell, <<0, 0>>, 4),
     Order("canceled", Stamp(MkTime(2023, 1, 0, 0)), EmptyCell, <<20>>, 1)}

QueryDisks ==
    {Directory(AllTables, o, p, Customers, r) :
        <<o, p, r>> \in {<<o, p, r>> \in SeqsUpTo(QueryOrders, MaxOrders)
                            \X ProductTables
                            \X UNION {ReviewTables(o) : o \in SeqsUpTo(QueryOrders, MaxOrders)} :
                         r \in ReviewTables(o)}}

\* the orders of the end-to-end scenario: A, B and C
FixtureOrders ==
    <<Order("delivered", Stamp(MkTime(2023, 1, 0, 1)),
                         Stamp(MkTime(2023, 1, 0, 1) + 2 * TicksPerDay), <<50, 30>>, 5),
      Order("delivered", Stamp(MkTime(2023, 1, 1, 0)),
                         Stamp(MkTime(2023, 1, 1, 0) + 10 * TicksPerDay), <<100>>, 3),
      Order("canceled", Stamp(MkTime(2023, 2, 0, 0)), EmptyCell, <<20>>, NaN)>>

\* the reviews of the orders that have a score
ScoredReviews(orders) == SelectSeq(ReviewsOf(orders), LAMBDA r : ~isna(r.review_score))

FixtureDisk ==
    Directory(AllTables, FixtureOrders, Products, Customers, ScoredReviews(FixtureOrders))

\* the scenario and its parts: every sequence of distinct orders of the fixture
FixtureDisks ==
    {Directory(AllTables, o, Products, Customers, ScoredReviews(o)) :
        o \in {[i \in 1..Len(p) |-> FixtureOrders[p[i]]] :
                  p \in {q \in SeqsUpTo(1..Len(FixtureOrders), Len(FixtureOrders)) :
                            \A i, j \in 1..Len(q) : i # j => q[i] # q[j]}}}

\* orders as the files may hold them: a delivery of a day and a half, an
\* undelivered one, a delivery dated before the purchase, a late one, empty
\* and unreadable timestamps, an order that was canceled
P0 == MkTime(2023, 1, 0, 1)
RawOrders ==
    {Order("delivered", Stamp(P0), Stamp(P0 + TicksPerDay + 1), <<10, 30>>, 5),
     Order("delivered", Stamp(P0), EmptyCell, <<20>>, 4),
     Order("delivered", Stamp(P0), Stamp(P0 - 1), <<20>>, 2),
     Order("delivered", Stamp(P0), Stamp(P0 + 8 * TicksPerDay), <<10>>, 3),
     Order("delivered", EmptyCell, Stamp(P0 + 1), <<10>>, 3),
     Order("delivered", Garbage, Stamp(P0), <<10>>, 1),
     Order("delivered", Stamp(P0), Garbage, <<10>>, 1),
     Order("shipped", Stamp(P0), EmptyCell, <<10>>, 4),
     Order("canceled", Stamp(P0), EmptyCell, <<20, 10>>, 1)}

\* every table present with the lookup tables and the reviews varying, or
\* some of the optional files missing
RawDisks ==
    {Directory(AllTables, x[1], x[2], x[3], x[4]) :
        x \in {y \in SeqsUpTo(RawOrders, MaxOrders) \X ProductTables \X CustomerTables
                      \X UNION {ReviewTables(o) : o \in SeqsUpTo(RawOrders, MaxOrders)} :
                  y[4] \in ReviewTables(y[1])}}
    \cup
    {Directory(AllTables \ missing, o, Products, Customers, ReviewsOf(o)) :
        o \in SeqsUpTo(RawOrders, MaxOrders), missing \in (SUBSET OptionalTables) \ {{}}}

(***************************************************************************)
(* The program: load_and_prepare_data() runs once (its result is cached),  *)
(* then queries are answered from its result.                              *)
(***************************************************************************)
NoResult == [fn |-> "none"]
\* no call has been made before
NoCall == [query |-> NoResult, result |-> NoResult]

Start(disks) ==
    /\ disk \in disks
    /\ datasets = <<>>
    /\ sales_data = EmptyDataFrame
    /\ delivered_orders = EmptyDataFrame
    /\ query = NoResult
    /\ result = NoResult
    /\ pc = "start"
    /\ now = 0
    /\ previous = NoCall
    /\ written = {}
    /\ tie_order \in TieOrders

Init == Start(QueryDisks)

\* load_and_prepare_data: raw_datasets = load_raw_datasets('ecommerce_data/')
LoadRawDatasets ==
    /\ pc = "start"
    /\ datasets' = load_raw_datasets(disk)
    /\ pc' = "loaded"
    /\ UNCHANGED <<disk, sales_data, delivered_orders, query, result, now, previous, written, tie_order>>

\* load_and_prepare_data: sales_data = clean_and_prepare_data(raw_datasets);
\* an exception ends the function with an empty DataFrame
CleanAndPrepareData ==
    /\ pc = "loaded"
    /\ sales_data' = clean_and_prepare_data(datasets)
    /\ pc' = IF sales_data'.exc = "" THEN "cleaned" ELSE "ready"
    /\ delivered_orders' = EmptyDataFrame
    /\ UNCHANGED <<disk, datasets, query, result, now, previous, written, tie_order>>

\* load_and_prepare_data: delivered_orders = filter_delivered_orders(sales_data)
FilterDeliveredOrders ==
    /\ pc = "cleaned"
    /\ delivered_orders' = filter_delivered_orders(sales_data)
    /\ pc' = "ready"
    /\ UNCHANGED <<disk, datasets, sales_data, query, result, now, previous, written, tie_order>>

\* one run of main() with the selections of the two dropdowns.  The two
\* column assignments are made on the frame load_and_prepare_data() returned,
\* in place; written records the columns assigned on it
Main ==
    /\ pc = "ready"
    /\ \E selected_year \in available_years(delivered_orders) \cup {EpochYear},
          selected_month \in {AllMonths} \cup (1..MonthsPerYear) :
        /\ query' = [fn |-> "main", year |-> selected_year, month |-> selected_month]
        /\ result' = main(delivered_orders, selected_year, selected_month)
    /\ delivered_orders' = IF empty(delivered_orders) THEN delivered_orders
                           ELSE AssignDateColumns(delivered_orders)
    /\ written' = IF empty(delivered_orders) THEN written
                  ELSE written \cup {"year", "month"}
    /\ pc' = "answered"
    /\ UNCHANGED <<disk, datasets, sales_data, now, previous, tie_order>>

\* the years a caller asks about: the years of the data and the year after
QueryYears == EpochYear..(EpochYear + 2)

PeriodFilter(year, month) ==
    IF month = AllMonths THEN [year |-> year] ELSE [year |-> year, month |-> month]

\* a call of calculate_revenue_metrics for a period and the same period a year before
RevenueMetrics ==
    /\ pc = "ready"
    /\ \E year \in QueryYears, month \in {AllMonths, 1, 2} :
        /\ query' = [fn |-> "calculate_revenue_metrics", year |-> year, month |-> month]
        /\ result' = calculate_revenue_metrics(delivered_orders,
                         PeriodFilter(year, month), PeriodFilter(year - 1, month))
    /\ pc' = "answered"
    /\ UNCHANGED <<disk, datasets, sales_data, delivered_orders, now, previous, written, tie_order>>

\* the columns a caller's record set may lack
DroppedColumns ==
    {{}, {"product_category_name"}, {"customer_state"}, {"review_score"},
     {"delivery_days"}, {"delivery_category"}, {"order_status"},
     {"delivery_days", "delivery_category"}}

\* a call of generate_comprehensive_report on the delivered records, without
\* some columns
Report ==
    /\ pc = "ready"
    /\ \E analysis_year \in QueryYears, dropped \in DroppedColumns :
        /\ query' = [fn |-> "generate_comprehensive_report", year |-> analysis_year,
                     comparison_year |-> analysis_year - 1, dropped |-> dropped]
        /\ result' = generate_comprehensive_report(
                         DataFrame(delivered_orders.cols \ dropped, delivered_orders.rows),
                         analysis_year, analysis_year - 1)
    /\ pc' = "answered"
    /\ UNCHANGED <<disk, datasets, sales_data, delivered_orders, now, previous, written, tie_order>>

Analyzers ==
    {"analyze_product_performance", "analyze_geographic_performance",
     "analyze_customer_satisfaction", "analyze_delivery_performance",
     "calculate_order_status_metrics"}

Analyzer(fn, df) ==
    CASE fn = "analyze_product_performance" -> analyze_product_performance(df)
      [] fn = "analyze_geographic_performance" -> analyze_geographic_performance(df)
      [] fn = "analyze_customer_satisfaction" -> analyze_customer_satisfaction(df)
      [] fn = "analyze_delivery_performance" -> analyze_delivery_performance(df)
      [] fn = "calculate_order_status_metrics" -> calculate_order_status_metrics(df)

\* a call of one analyzer on the delivered records, without some columns
Analyze ==
    /\ pc = "ready"
    /\ \E fn \in Analyzers, dropped \in DroppedColumns :
        /\ query' = [fn |-> fn, dropped |-> dropped]
        /\ result' = Analyzer(fn, DataFrame(delivered_orders.cols \ dropped,
                                            delivered_orders.rows))
    /\ pc' = "answered"
    /\ UNCHANGED <<disk, datasets, sales_data, delivered_orders, now, previous, written, tie_order>>

\* the answer is consumed; the script runs again on the next selection, the
\* cached result of load_and_prepare_data kept: st.cache_data hands the next
\* run a frame nothing has been assigned on
Rerun ==
    /\ pc = "answered"
    /\ pc' = "ready"
    /\ query' = NoResult
    /\ result' = NoResult
    /\ written' = {}
    /\ UNCHANGED <<disk, datasets, sales_data, delivered_orders, now, previous, tie_order>>

\* the caller keeps the report it got and, some time later, is ready to call
\* generate_comprehensive_report again
NextCall ==
    /\ pc = "answered"
    /\ query.fn = "generate_comprehensive_report"
    /\ now < MaxCalls - 1
    /\ previous' = [query |-> query, result |-> result]
    /\ now' = now + 1
    /\ pc' = "ready"
    /\ query' = NoResult
    /\ result' = NoResult
    /\ UNCHANGED <<disk, datasets, sales_data, delivered_orders, written, tie_order>>

Next ==
    \/ LoadRawDatasets
    \/ CleanAndPrepareData
    \/ FilterDeliveredOrders
    \/ Main
    \/ RevenueMetrics
    \/ Report
    \/ Analyze
    \/ Rerun

Spec == Init /\ [][Next]_vars

\* load_and_prepare_data() alone, on every kind of input file
InitPrepare == Start(RawDisks)
NextPrepare == LoadRawDatasets \/ CleanAndPrepareData \/ FilterDeliveredOrders
SpecPrepare == InitPrepare /\ [][NextPrepare]_vars

\* the program on the end-to-end scenario
InitFixture == Start(FixtureDisks)
SpecFixture == InitFixture /\ [][Next]_vars

\* calls of generate_comprehensive_report one after the other, time passing
\* between them, on the records of the scenario
NextReport ==
    \/ LoadRawDatasets
    \/ CleanAndPrepareData
    \/ FilterDeliveredOrders
    \/ Report
    \/ NextCall
SpecReport == InitFixture /\ [][NextReport]_vars

\* the values of a delivery_days cell: null, or a number of whole days (below
\* zero when the delivery is dated before the purchase)
DeliveryDays == {NaN} \cup (-2..MaxDays)

InitBuckets ==
    /\ disk = <<>>
    /\ datasets = <<>>
    /\ sales_data = EmptyDataFrame
    /\ delivered_orders = EmptyDataFrame
    /\ query = NoResult
    /\ result = NoResult
    /\ pc = "bucketing"
    /\ now = 0
    /\ previous = NoCall
    /\ written = {}
    /\ tie_order = "kept"

\* filter_delivered_orders: delivery_days.apply(categorize_delivery_speed), one cell
CategorizeDeliverySpeed ==
    /\ pc = "bucketing"
    /\ \E days \in DeliveryDays :
        /\ query' = [fn |-> "categorize_delivery_speed", days |-> days]
        /\ result' = [label |-> categorize_delivery_speed(days)]
    /\ pc' = "answered"
    /\ UNCHANGED <<disk, datasets, sales_data, delivered_orders, now, previous, written, tie_order>>

\* create_satisfaction_delivery_chart: delivery_days.apply(categorize_delivery_time),
\* one cell
CategorizeDeliveryTime ==
    /\ pc = "bucketing"
    /\ \E days \in DeliveryDays :
        /\ query' = [fn |-> "categorize_delivery_time", days |-> days]
        /\ result' = [label |-> categorize_delivery_time(days)]
    /\ pc' = "answered"
    /\ UNCHANGED <<disk, datasets, sales_data, delivered_orders, now, previous, written, tie_order>>

NextBuckets == CategorizeDeliverySpeed \/ CategorizeDeliveryTime

\* the two bucketing functions on every value of a delivery_days cell
SpecBuckets == InitBuckets /\ [][NextBuckets]_vars

(***************************************************************************)
(* Properties.                                                             *)
(***************************************************************************)
Answered(fn) == pc = "answered" /\ query.fn = fn

\* the delivered records of a period: a year and a month or AllMonths
PeriodRows(year, month) ==
    SelectSeq(delivered_orders.rows, LAMBDA r : InPeriod(r, year, month))

\* C1: on the 3-order fixture (A: items 50 and 30, delivered in 2 days, score
\* 5; B: one item 100, delivered in 10 days, score 3; C: one item 20,
\* canceled) the delivered orders give total_revenue 180, total_orders 2,
\* average_order_value 90, on_time_percentage 50 and average review score 4.
C1_EndToEndScenario ==
    (/\ Answered("generate_comprehensive_report")
     /\ disk = FixtureDisk
     /\ query.year = 2023
     /\ query.dropped = {})
    => /\ result.exc = ""
       /\ result.groups.revenue_metrics.current_period.total_revenue = Num(180)
       /\ result.groups.revenue_metrics.current_period.total_orders = 2
       /\ result.groups.revenue_metrics.current_period.average_order_value = Num(90)
       /\ result.groups.delivery_performance.on_time_percentage = Num(50)
       /\ result.groups.customer_satisfaction.average_score = Num(4)

\* g is (current - comparison) / comparison * 100, and 0 when comparison is 0
IsGrowthRate(g, current, comparison) ==
    IF comparison.n = 0 THEN g = Num(0)
    ELSE /\ g.k = "num"
         /\ g.n * current.d * comparison.n
              = (current.n * comparison.d - comparison.n * current.d) * 100 * g.d

\* C2: for current and comparison record sets that are not empty, each growth
\* rate (revenue, orders, average order value) is (current - comparison) /
\* comparison * 100 when the comparison value is not 0 and exactly 0 when it
\* is 0, without an exception, in calculate_revenue_metrics and in main().
C2_GrowthRates ==
    /\ (/\ Answered("calculate_revenue_metrics")
        /\ PeriodRows(query.year, query.month) # <<>>
        /\ PeriodRows(query.year - 1, query.month) # <<>>)
       => /\ result.exc = ""
          /\ "growth_rates" \in result.keys
          /\ IsGrowthRate(result.growth_rates.revenue_growth,
                          result.current_period.total_revenue,
                          result.comparison_period.total_revenue)
          /\ IsGrowthRate(result.growth_rates.order_growth,
                          Num(result.current_period.total_orders),
                          Num(result.comparison_period.total_orders))
          /\ IsGrowthRate(result.growth_rates.aov_growth,
                          result.current_period.average_order_value,
                          result.comparison_period.average_order_value)
    /\ (/\ Answered("main")
        /\ result.out = "dashboard"
        /\ result.comparison_data # <<>>)
       => /\ IsGrowthRate(result.revenue_trend,
                          result.current_metrics.total_revenue,
                          Num(PriceSum(result.comparison_data)))
          /\ IsGrowthRate(result.orders_trend,
                          Num(result.current_metrics.total_orders),
                          Num(nunique(result.comparison_data, "order_id")))
          /\ IsGrowthRate(result.aov_trend,
                          result.current_metrics.average_order_value,
                          average_order_value(result.comparison_data))

\* C3: when no record lies in the comparison period (the year before, same
\* month constraint), the result reports every growth rate with the value 0
\* and nothing is raised, in calculate_revenue_metrics and in main().
C3_EmptyComparison ==
    /\ (/\ Answered("calculate_revenue_metrics")
        /\ PeriodRows(query.year, query.month) # <<>>
        /\ PeriodRows(query.year - 1, query.month) = <<>>)
       => /\ result.exc = ""
          /\ "growth_rates" \in result.keys
          /\ result.growth_rates.revenue_growth = Num(0)
          /\ result.growth_rates.order_growth = Num(0)
          /\ result.growth_rates.aov_growth = Num(0)
    /\ (/\ Answered("main")
        /\ result.out = "dashboard"
        /\ PeriodRows(query.year - 1, query.month) = <<>>)
       => /\ result.revenue_trend = Num(0)
          /\ result.orders_trend = Num(0)
          /\ result.aov_trend = Num(0)

\* C4: analyze_customer_satisfaction counts each distinct order_id once:
\* total_reviews is the number of distinct order ids and the scores that
\* enter the mean, the median and the distribution are one per order,
\* however many rows and different scores the order has.
C4_OneReviewPerOrder ==
    (/\ Answered("analyze_customer_satisfaction")
     /\ query.dropped \cap {"order_id", "review_score"} = {})
    => /\ result.exc = "" /\ result.error = ""
       /\ result.total_reviews = nunique(delivered_orders.rows, "order_id")
       /\ \A i, j \in 1..Len(result.review_data) :
            i # j => result.review_data[i].order_id # result.review_data[j].order_id

Prepared == pc \in {"cleaned", "ready"}

\* C5: the record set returned by clean_and_prepare_data holds at most one
\* row per (order_id, order_item_id) pair, for every input, also when an
\* order has several reviews or the products or customers repeat a key.
C5_OneRowPerItem ==
    (Prepared /\ sales_data.exc = "")
    => \A i, j \in 1..Len(sales_data.rows) :
          i # j => <<sales_data.rows[i].order_id, sales_data.rows[i].order_item_id>>
                     # <<sales_data.rows[j].order_id, sales_data.rows[j].order_item_id>>

\* the columns an analyzer cannot do without
RequiredColumns(fn) ==
    CASE fn = "analyze_product_performance" -> {"product_category_name"}
      [] fn = "analyze_geographic_performance" -> {"customer_state"}
      [] fn = "analyze_customer_satisfaction" -> {"review_score"}
      [] fn = "analyze_delivery_performance" -> {"delivery_days", "delivery_category"}
      [] fn = "calculate_order_status_metrics" -> {"order_status"}

\* C6: every analyzer called on a record set that lacks a column it needs
\* returns the unavailable marker (a dict with an 'error' entry) and does not
\* raise, and generate_comprehensive_report on such a record set still
\* returns a report; so for analyze_delivery_performance without
\* delivery_category and calculate_order_status_metrics without order_status.
C6_UnavailableMarker ==
    /\ (/\ pc = "answered"
        /\ query.fn \in Analyzers
        /\ query.dropped \cap RequiredColumns(query.fn) # {})
       => result.exc = "" /\ result.error # ""
    /\ Answered("generate_comprehensive_report") /\ PeriodRows(query.year, AllMonths) # <<>>
       => result.exc = ""

\* C7: load_raw_datasets returns the mapping of the sources that were found,
\* and when optional sources (products, customers, reviews, payments) are
\* missing clean_and_prepare_data still returns the sales records and does
\* not raise.
C7_MissingSourceTolerated ==
    /\ pc # "start"
       => DOMAIN datasets = {k \in DOMAIN file_mapping : file_mapping[k] \in DOMAIN disk}
    /\ (/\ Prepared
        /\ ~(OptionalTables \subseteq DOMAIN datasets)
        /\ \A i \in 1..Len(datasets.orders) :
              /\ datasets.orders[i].order_purchase_timestamp.kind = "ts"
              /\ datasets.orders[i].order_delivered_customer_date.kind # "bad")
       => sales_data.exc = "" /\ sales_data.rows # <<>>

\* C8: clean_and_prepare_data does not raise on a purchase timestamp that is
\* unparseable or missing: the row is left out, so no returned row has a null
\* purchase timestamp, year or month.
C8_BadTimestampDropped ==
    (Prepared /\ RequiredTables \subseteq DOMAIN datasets)
    => /\ sales_data.exc = ""
       /\ \A i \in 1..Len(sales_data.rows) :
            /\ ~isna(sales_data.rows[i].order_purchase_timestamp)
            /\ ~isna(sales_data.rows[i].year)
            /\ ~isna(sales_data.rows[i].month)

IsNumber(x) == x.k = "num"

\* C9: when the current period holds no record, main() stops with the
\* no-data warning and generate_comprehensive_report for a year without
\* records returns without raising and without NaN metric values.
C9_EmptyCurrentPeriod ==
    /\ (Answered("main") /\ PeriodRows(query.year, query.month) = <<>>)
       => result.out \in {"warning: no data for the selected date range",
                          "error: no data available"}
    /\ (/\ Answered("generate_comprehensive_report")
        /\ query.dropped = {}
        /\ PeriodRows(query.year, AllMonths) = <<>>)
       => /\ result.exc = ""
          /\ IsNumber(result.groups.revenue_metrics.current_period.average_order_value)

\* C10: filter_delivered_orders returns exactly the input rows whose
\* order_status is "delivered", in order and with their multiplicity, and
\* delivery_days of a returned row is the whole number of days (the floor) of
\* delivered date minus purchase timestamp, null when the delivered date is null.
C10_FilterDelivered ==
    (pc = "ready" /\ sales_data.exc = "")
    => LET kept == SortedSeq({i \in 1..Len(sales_data.rows) :
                                 sales_data.rows[i].order_status = "delivered"})
       IN  /\ Len(delivered_orders.rows) = Len(kept)
           /\ \A j \in 1..Len(kept) :
                LET r == delivered_orders.rows[j]
                    s == sales_data.rows[kept[j]]
                    delta == s.order_delivered_customer_date - s.order_purchase_timestamp
                IN  /\ \A c \in SalesCols : r[c] = s[c]
                    /\ isna(s.order_delivered_customer_date) => isna(r.delivery_days)
                    /\ (/\ ~isna(s.order_delivered_customer_date)
                        /\ ~isna(s.order_purchase_timestamp))
                       => /\ ~isna(r.delivery_days)
                          /\ r.delivery_days * TicksPerDay <= delta
                          /\ delta < (r.delivery_days + 1) * TicksPerDay

\* C10's case: an input with a row that is not delivered and a delivered row
\* whose delivery took a fraction of a day more than a whole number of days
C10_Witness ==
    /\ pc = "ready" /\ sales_data.exc = ""
    /\ \E i \in 1..Len(sales_data.rows) : sales_data.rows[i].order_status # "delivered"
    /\ \E j \in 1..Len(delivered_orders.rows) :
          LET r == delivered_orders.rows[j]
          IN  /\ ~isna(r.delivery_days)
              /\ (r.order_delivered_customer_date - r.order_purchase_timestamp)
                     % TicksPerDay # 0

\* C11: the current set main() selects for a reference year and an optional
\* month is exactly the delivered records with year = ref_year and (month
\* unset or month = ref_month), the comparison set exactly those with year =
\* ref_year - 1 under the same month constraint; the two sets are disjoint
\* and both are subsets of the delivered records.
C11_PeriodSelection ==
    (Answered("main") /\ result.out # "error: no data available")
    => /\ result.filtered_data =
             SelectSeq(delivered_orders.rows, LAMBDA r :
                 r.year = query.year
                 /\ (query.month = AllMonths \/ r.month = query.month))
       /\ result.comparison_data =
             SelectSeq(delivered_orders.rows, LAMBDA r :
                 r.year = query.year - 1
                 /\ (query.month = AllMonths \/ r.month = query.month))
       /\ Range(result.filtered_data) \cap Range(result.comparison_data) = {}
       /\ Range(result.filtered_data) \subseteq Range(delivered_orders.rows)
       /\ Range(result.comparison_data) \subseteq Range(delivered_orders.rows)

\* C11's case: a month is selected, and records lie in that month of the
\* reference year and of the year before
C11_Witness ==
    /\ Answered("main")
    /\ query.month # AllMonths
    /\ result.out = "dashboard"
    /\ result.filtered_data # <<>>
    /\ result.comparison_data # <<>>

\* x is the float n / d
IsRatio(x, n, d) == x.k = "num" /\ x.n * d = n * x.d

\* the reorderings of a record set that are tried: all of them
Reorderings(rows) ==
    {[i \in 1..Len(rows) |-> rows[p[i]]] : p \in Permutations(1..Len(rows))}

\* C12: for every record set that is not empty, average_order_value is the
\* mean over the distinct order_id values of the sum of price within the
\* order (the total of the prices over the number of orders, not the mean of
\* the line-item prices), in calculate_revenue_metrics and in main(), and it
\* is the same for every permutation of the rows.
C12_AverageOrderValue ==
    /\ (/\ Answered("calculate_revenue_metrics")
        /\ result.exc = ""
        /\ PeriodRows(query.year, query.month) # <<>>)
       => LET rows == PeriodRows(query.year, query.month)
              ids == {rows[i].order_id : i \in 1..Len(rows)}
          IN  /\ IsRatio(result.current_period.average_order_value,
                         PriceSum(rows), Cardinality(ids))
              /\ Len(delivered_orders.rows) <= MaxPermuted
                 => \A permuted \in Reorderings(delivered_orders.rows) :
                       calculate_revenue_metrics(
                           DataFrame(delivered_orders.cols, permuted),
                           PeriodFilter(query.year, query.month),
                           PeriodFilter(query.year - 1, query.month)
                       ).current_period.average_order_value
                       = result.current_period.average_order_value
    /\ (Answered("main") /\ result.out = "dashboard")
       => LET rows == result.filtered_data
              ids == {rows[i].order_id : i \in 1..Len(rows)}
          IN  /\ IsRatio(result.current_metrics.average_order_value,
                         PriceSum(rows), Cardinality(ids))
              /\ Len(delivered_orders.rows) <= MaxPermuted
                 => \A permuted \in Reorderings(delivered_orders.rows) :
                       main(DataFrame(delivered_orders.cols, permuted),
                            query.year, query.month
                       ).current_metrics.average_order_value
                       = result.current_metrics.average_order_value

\* C12's case: a record set of an order with one line item and an order with
\* several, where the mean of the orders' sums is not the mean of the prices,
\* small enough for every reordering to be tried
C12_Witness ==
    /\ Answered("calculate_revenue_metrics")
    /\ result.exc = ""
    /\ LET rows == PeriodRows(query.year, query.month)
       IN  /\ Len(rows) >= 3
           /\ Len(delivered_orders.rows) <= MaxPermuted
           /\ Cardinality({rows[i].order_id : i \in 1..Len(rows)}) = 2
           /\ result.current_period.average_order_value
                 # average_order_value_per_item(rows)

\* the inputs the bucketing is specified on
BoundaryDays == {NaN, 0, 3, 4, 7, 8, 14, 15, 100}

\* C13: the delivery_category bucketing of filter_delivered_orders is a total
\* function of delivery_days: null maps to "Unknown", a value <= 3 to "1-3
\* days", a value in 4..7 to "4-7 days" and any larger value to "8+ days";
\* each of null, 0, 3, 4, 7, 8, 14, 15, 100 gets exactly one of the four labels.
C13_DeliveryCategory ==
    Answered("categorize_delivery_speed")
    => LET days == query.days
           label == result.label
       IN  /\ label \in {"Unknown", "1-3 days", "4-7 days", "8+ days"}
           /\ label = "Unknown" <=> days = NaN
           /\ label = "1-3 days" <=> (days # NaN /\ days <= 3)
           /\ label = "4-7 days" <=> days \in 4..7
           /\ label = "8+ days" <=> days > 7

\* C13's case: the bucketing applied to the boundary value 8
C13_Witness ==
    /\ Answered("categorize_delivery_speed")
    /\ query.days \in BoundaryDays
    /\ query.days = 8
    /\ result.label = "8+ days"

\* C14: the bucketing of the satisfaction-vs-delivery chart is a total
\* function of delivery_days: null maps to "Unknown", <= 3 to "1-3 days",
\* 4..7 to "4-7 days", 8..14 to "8-14 days" and > 14 to "15+ days"; it agrees
\* with the delivery_category bucketing on null and on every value <= 7, and
\* splits exactly the values that delivery_category labels "8+ days".
C14_DeliveryBucket ==
    Answered("categorize_delivery_time")
    => LET days == query.days
           label == result.label
           category == categorize_delivery_speed(days)
       IN  /\ label \in {"Unknown", "1-3 days", "4-7 days", "8-14 days", "15+ days"}
           /\ label = "Unknown" <=> days = NaN
           /\ label = "1-3 days" <=> (days # NaN /\ days <= 3)
           /\ label = "4-7 days" <=> days \in 4..7
           /\ label = "8-14 days" <=> days \in 8..14
           /\ label = "15+ days" <=> days > 14
           /\ (days = NaN \/ days <= 7) => label = category
           /\ label \in {"8-14 days", "15+ days"} <=> category = "8+ days"

\* C14's case: the chart's bucketing applied to 15 days, which delivery_category
\* labels "8+ days"
C14_Witness ==
    /\ Answered("categorize_delivery_time")
    /\ query.days = 15
    /\ result.label = "15+ days"
    /\ categorize_delivery_speed(query.days) = "8+ days"

\* the per-group table of a product or geographic analyzer's result
GroupTable(res) ==
    IF query.fn = "analyze_product_performance" THEN res.category_performance
    ELSE res.state_performance

GroupColumn(fn) ==
    IF fn = "analyze_product_performance" THEN "product_category_name"
    ELSE "customer_state"

\* |x - 100| <= tolerance hundredths, for a float that is a number
Near100(x, tolerance) ==
    /\ x.k = "num"
    /\ (x.n - 100 * x.d) * 100 <= tolerance * x.d
    /\ (100 * x.d - x.n) * 100 <= tolerance * x.d

Compared(report) ==
    IF report.exc = "" THEN [report EXCEPT !.generated_at = 0] ELSE report

\* C17: generate_comprehensive_report is deterministic: two calls with the same
\* record set, analysis_year and comparison_year return reports that are equal
\* in every entry except 'generated_at' (or raise the same exception), whatever
\* calls were made before and whatever time has passed.
C17_ReportDeterministic ==
    (Answered("generate_comprehensive_report") /\ previous.query = query)
    => Compared(result) = Compared(previous.result)

\* C17's case: a report returned a second time for the same inputs, at a
\* later time than the first
C17_Witness ==
    /\ Answered("generate_comprehensive_report")
    /\ previous.query = query
    /\ result.exc = ""
    /\ result.generated_at # previous.result.generated_at
    /\ result.groups = previous.result.groups

\* C18: after any sequence of queries (runs of main() with any selections,
\* calls of the metrics and analyzer functions) the delivered-record set
\* load_and_prepare_data returned is never written in place: nothing is
\* assigned on it, its rows, columns and values are those of the first
\* computation, and the stages before it have left their arguments as they were.
C18_CacheNotWritten ==
    pc \in {"ready", "answered"}
    => /\ written = {}
       /\ delivered_orders = IF sales_data.exc = ""
                             THEN filter_delivered_orders(sales_data)
                             ELSE EmptyDataFrame
       /\ sales_data = clean_and_prepare_data(datasets)
       /\ datasets = load_raw_datasets(disk)

\* table has no row with this value of key
Unmatched(table, key, value) == \A k \in 1..Len(table) : table[k][key] # value

\* C19: the left joins of clean_and_prepare_data never drop a sales row:
\* every (order_id, order_item_id) row of the inner join of order_items with
\* orders is in the returned record set at least once, with
\* product_category_name, customer_state and customer_city, or review_score
\* null when the products, customers or reviews table has no matching key.
C19_LeftJoinsKeepRows ==
    (Prepared /\ sales_data.exc = "")
    => \A i \in 1..Len(datasets.order_items), o \in 1..Len(datasets.orders) :
          LET item == datasets.order_items[i]
              order == datasets.orders[o]
              joined == {k \in 1..Len(sales_data.rows) :
                            /\ sales_data.rows[k].order_id = item.order_id
                            /\ sales_data.rows[k].order_item_id = item.order_item_id}
          IN  item.order_id = order.order_id
              => /\ joined # {}
                 /\ \A k \in joined :
                      LET r == sales_data.rows[k]
                      IN  /\ r.price = item.price
                          /\ r.order_status = order.order_status
                          /\ Unmatched(datasets.products, "product_id", item.product_id)
                             => r.product_category_name = NullStr
                          /\ Unmatched(datasets.customers, "customer_id", order.customer_id)
                             => r.customer_state = NullStr /\ r.customer_city = NullStr
                          /\ Unmatched(datasets.reviews, "order_id", item.order_id)
                             => r.review_score = NaN

\* C19's case: returned rows whose product is not in the products table,
\* whose customer is not in the customers table and whose order has no review
C19_Witness ==
    /\ Prepared /\ sales_data.exc = ""
    /\ \E k \in 1..Len(sales_data.rows) :
          sales_data.rows[k].product_category_name = NullStr
    /\ \E k \in 1..Len(sales_data.rows) :
          /\ sales_data.rows[k].customer_state = NullStr
          /\ sales_data.rows[k].customer_city = NullStr
    /\ \E k \in 1..Len(sales_data.rows) : sales_data.rows[k].review_score = NaN

\* C20: every row returned by filter_delivered_orders that has both
\* order_purchase_timestamp and order_delivered_customer_date has
\* delivery_days >= 0; a record whose delivered date is before its purchase
\* date is not given a bucket that looks valid, such as "1-3 days".
C20_DeliveryDaysNotNegative ==
    (pc = "ready" /\ sales_data.exc = "")
    => \A i \in 1..Len(delivered_orders.rows) :
          LET r == delivered_orders.rows[i]
          IN  (/\ r.order_purchase_timestamp # NaN
               /\ r.order_delivered_customer_date # NaN)
              => /\ r.delivery_days # NaN
                 /\ r.delivery_days >= 0
                 /\ r.order_delivered_customer_date < r.order_purchase_timestamp
                    => r.delivery_category \notin {"1-3 days", "4-7 days", "8+ days"}

\* C21: the per-group table returned by analyze_product_performance and
\* analyze_geographic_performance is ordered by non-increasing total_revenue,
\* groups with equal total_revenue keep their original group-key order (the
\* sort is stable), and top_category / top_state is the first row.
C21_SortedStable ==
    (/\ pc = "answered"
     /\ query.fn \in {"analyze_product_performance", "analyze_geographic_performance"}
     /\ query.dropped = {}
     /\ result.exc = "")
    => LET table == GroupTable(result)
           place(key) == CHOOSE n \in 1..Len(StrOrder) : StrOrder[n] = key
           top == IF query.fn = "analyze_product_performance"
                  THEN result.top_category ELSE result.top_state
       IN  /\ \A i, j \in 1..Len(table) :
                 i < j => /\ ~flt(table[i].total_revenue, table[j].total_revenue)
                          /\ table[i].total_revenue = table[j].total_revenue
                             => place(table[i].key) < place(table[j].key)
           /\ top = table[1].key

\* the revenue totals of the months of a record set of one year, in calendar order
MonthTotals(rows) ==
    LET months == SortedSeq({rows[i].month : i \in 1..Len(rows)})
    IN  [m \in 1..Len(months) |->
            PriceSum(SelectSeq(rows, LAMBDA r : r.month = months[m]))]

\* the mean of the successive percentage changes of the totals
MeanChange(totals) ==
    fmul(fdiv(fsum([m \in 1..(Len(totals) - 1) |->
                      fdiv(Num(totals[m + 1] - totals[m]), Num(totals[m]))]),
              Num(Len(totals) - 1)),
         Num(100))

\* C22: monthly growth of the current period in main() is the mean of the
\* successive percentage changes between consecutive monthly revenue totals
\* in calendar order, exactly 0 when the period has fewer than two months,
\* and a finite number whenever it has two months or more, also when the
\* revenue total of an earlier month is 0.
C22_MonthlyGrowth ==
    (Answered("main") /\ result.out = "dashboard")
    => LET totals == MonthTotals(result.filtered_data)
       IN  IF Len(totals) < 2 THEN result.monthly_growth = Num(0)
           ELSE /\ IsNumber(result.monthly_growth)
                /\ (\A m \in 1..(Len(totals) - 1) : totals[m] # 0)
                   => result.monthly_growth = MeanChange(totals)

\* C23: satisfaction_rate returned by analyze_customer_satisfaction is the
\* share (in percent) of the orders with a review score whose score is >= 4:
\* orders without a review (a null review_score from the left join) are
\* counted neither in the numerator nor in the denominator, and the value is
\* a number (no division by zero) whenever the analyzer returns metrics.
C23_SatisfactionRate ==
    (/\ Answered("analyze_customer_satisfaction")
     /\ query.dropped \cap {"order_id", "review_score"} = {}
     /\ result.exc = "" /\ result.error = "")
    => LET scored == SelectSeq(result.review_data, LAMBDA r : r.review_score # NaN)
           satisfied == SelectSeq(scored, LAMBDA r : r.review_score >= 4)
       IN  /\ IsNumber(result.satisfaction_rate)
           /\ scored # <<>>
              => IsRatio(result.satisfaction_rate, 100 * Len(satisfied), Len(scored))

====
